---- MODULE Spec2Model ----
(***************************************************************************)
(* A model of the three batch scripts of retail-marketing-analytics:       *)
(*   transform.py        (create_customer_features, process_datasets)      *)
(*   data_processing.py  (imputation, one-hot encoding, scaling)           *)
(*   clustering_model.py (K-means labelling of the feature table)          *)
(* Tables are sequences of records; a missing numeric cell is the empty    *)
(* sequence << >> and a present one is << v >>; a missing label is the     *)
(* string "nan", which is what pandas prints for it.                       *)
(***************************************************************************)
EXTENDS Integers, Sequences, FiniteSets, TLC

VARIABLES
    \* ---- transform.create_customer_features
    transaction,        \* the transaction table (rows)
    hh_demographic,     \* the demographics table (rows)
    coupon_redempt,     \* the coupon redemption table (rows)
    customer_features,  \* the returned table
    cf_pc               \* "idle", "start", "done" or "raised"

cfVars == <<transaction, hh_demographic, coupon_redempt, customer_features, cf_pc>>

VARIABLES
    \* ---- transform.process_datasets
    raw_missing,        \* the raw CSV files that do not exist
    td_pc,              \* position in process_datasets
    td_i,               \* index of the load loop / the save loop
    td_loaded,          \* the raw tables read so far, in order
    td_normalized,      \* the tables whose columns were normalized
    td_renamed,         \* TRUE once the key columns are renamed
    td_built,           \* the derived tables built so far
    td_written,         \* the processed files written so far, in order
    td_failed_at        \* the step that raised, "" if none

tdVars == <<raw_missing, td_pc, td_i, td_loaded, td_normalized, td_renamed,
            td_built, td_written, td_failed_at>>

VARIABLES
    \* ---- the processed directory, as data_processing.py and
    \*      clustering_model.py see it
    fs_customer_features,   \* customer_features.csv
    fs_model_ready,         \* model_ready_features.csv
    fs_customer_segments,   \* customer_segments.csv
    \* ---- data_processing.py
    dp_pc,                  \* position in the script
    dp_df,                  \* customer_features_df, later the encoded / model-ready frame
    dp_notfound_printed,    \* TRUE once "not found: ..." was printed
    dp_read_attempted,      \* TRUE once pd.read_csv(file_path) was called
    \* ---- clustering_model.py
    cl_pc,                  \* position in the script
    cl_k,                   \* the k of the elbow loop
    cl_model_df,            \* model_df
    cl_orginal_df,          \* orginal_df
    clusters,               \* the labels returned by fit_predict
    cl_fits,                \* the number of K-means fits performed
    cl_plotted,             \* TRUE once the scatter plot was drawn
    cl_load_failed,         \* TRUE once loading an input CSV raised
    cl_status               \* the exit status, -1 while running or after a traceback

fsVars == <<fs_customer_features, fs_model_ready, fs_customer_segments>>
dpVars == <<dp_pc, dp_df, dp_notfound_printed, dp_read_attempted>>
clVars == <<cl_pc, cl_k, cl_model_df, cl_orginal_df, clusters, cl_fits, cl_plotted,
            cl_load_failed, cl_status>>

vars == <<cfVars, tdVars, fsVars, dpVars, clVars>>

-----------------------------------------------------------------------------
(* Bounds of the inputs *)

MaxRows == 3
MaxDemoRows == 2
MaxCouponRows == 1

Households == {1, 2}
BasketIds == {1, 2}
SalesValues == {0, 500, 2500}
RetailDiscs == {-50}
CouponDiscs == {0}

\* A basket is bought on one day; baskets are numbered by their day.
DayOfBasket(b) == b

-----------------------------------------------------------------------------
(* Generic helpers *)

Null == << >>
Some(v) == << v >>
FillNa(x, d) == IF x = Null THEN Some(d) ELSE x

Abs(x) == IF x < 0 THEN -x ELSE x

RECURSIVE SumSeq(_)
SumSeq(s) == IF s = << >> THEN 0 ELSE Head(s) + SumSeq(Tail(s))

RECURSIVE Flatten(_)
Flatten(ss) == IF ss = << >> THEN << >> ELSE Head(ss) \o Flatten(Tail(ss))

MaxOf(S) == CHOOSE m \in S : \A x \in S : x <= m
MinOf(S) == CHOOSE m \in S : \A x \in S : m <= x

RECURSIVE SortedSeq(_)
SortedSeq(S) == IF S = {} THEN << >> ELSE <<MinOf(S)>> \o SortedSeq(S \ {MinOf(S)})

Range(s) == {s[i] : i \in 1..Len(s)}

\* the rows of table t whose household_id is h, in table order
RowsOf(t, h) == SelectSeq(t, LAMBDA r : r.household_id = h)

\* the group keys of a groupby("household_id"): distinct and sorted
GroupKeys(t) == SortedSeq({t[i].household_id : i \in 1..Len(t)})

\* an inner join: left rows without a match are dropped
MergeInner(left, right, nulls) ==
    Flatten([i \in 1..Len(left) |->
        LET m == RowsOf(right, left[i].household_id)
        IN  [k \in 1..Len(m) |-> left[i] @@ m[k]]])

\* pd.merge(left, right, on="household_id", how="left"): every left row is
\* kept, in order; it is repeated once per matching right row, and gets the
\* null columns when no right row matches.
MergeLeft(left, right, nulls) ==
    Flatten([i \in 1..Len(left) |->
        LET m == RowsOf(right, left[i].household_id)
        IN  IF m = << >> THEN << left[i] @@ nulls >>
            ELSE [k \in 1..Len(m) |-> left[i] @@ m[k]]])

-----------------------------------------------------------------------------
(* transform.create_customer_features *)

NaNLabel == "nan"

SalesBins == <<0, 1000, 2500, 5000>>          \* the last edge is np.inf
SalesLabels == <<"Low", "Avg", "High", "VIP">>

\* pd.cut(x, bins, labels): right-closed intervals, lowest edge excluded
SalesSegment(x) ==
    LET hit == {i \in 1..Len(SalesBins) :
                   /\ SalesBins[i] < x
                   /\ (i = Len(SalesBins) \/ x <= SalesBins[i + 1])}
    IN  IF hit = {} THEN NaNLabel ELSE SalesLabels[CHOOSE i \in hit : TRUE]

FreqLabels == <<"Rare", "Occasional", "Frequent", "Very Frequent">>
FreqQ == 4

\* sorted copy of a sequence of integers
RECURSIVE SortInts(_)
SortInts(s) ==
    IF s = << >> THEN << >>
    ELSE LET m == MinOf(Range(s))
             i == CHOOSE j \in 1..Len(s) : s[j] = m
         IN  <<m>> \o SortInts([k \in 1..(Len(s) - 1) |-> IF k < i THEN s[k] ELSE s[k + 1]])

\* Series.quantile(i / q) with linear interpolation, times q (kept integral)
QuantileTimesQ(xs, i) ==
    LET srt == SortInts(xs)
        pos == i * (Len(xs) - 1)
        lo  == pos \div FreqQ
        rem == pos % FreqQ
    IN  IF rem = 0 THEN FreqQ * srt[lo + 1]
        ELSE FreqQ * srt[lo + 1] + rem * (srt[lo + 2] - srt[lo + 1])

QEdges(xs) == [i \in 1..(FreqQ + 1) |-> QuantileTimesQ(xs, i - 1)]

\* duplicates="raise": qcut raises ValueError when two bin edges coincide
QcutRaises(xs) == Cardinality(Range(QEdges(xs))) < FreqQ + 1

\* _bins_to_cuts with right=True, include_lowest=True
FrequencySegment(xs, x) ==
    LET e   == QEdges(xs)
        ids == IF FreqQ * x = e[1] THEN 1
               ELSE Cardinality({i \in 1..(FreqQ + 1) : e[i] < FreqQ * x})
    IN  IF ids = 0 \/ ids = FreqQ + 1 THEN NaNLabel ELSE FreqLabels[ids]

\* t.groupby("household_id").agg(total_sales=sum, basket_count=nunique)
BasketSum(txn) ==
    LET keys == GroupKeys(txn)
    IN  [i \in 1..Len(keys) |->
            LET g == RowsOf(txn, keys[i])
            IN  [household_id |-> keys[i],
                 total_sales  |-> SumSeq([k \in 1..Len(g) |-> g[k].sales_value]),
                 basket_count |-> Cardinality({g[k].basket_id : k \in 1..Len(g)})]]

AnalysisDay(txn) == MaxOf({txn[i].day : i \in 1..Len(txn)})

LastPurchaseDay(txn, h) == MaxOf({txn[i].day : i \in {j \in 1..Len(txn) : txn[j].household_id = h}})

FirstPurchaseDay(txn, h) == MinOf({txn[i].day : i \in {j \in 1..Len(txn) : txn[j].household_id = h}})

\* recency measured from the household's first purchase instead of its last
RecencyFromFirst(txn, h) == AnalysisDay(txn) - FirstPurchaseDay(txn, h)

Recency(txn, h) == AnalysisDay(txn) - LastPurchaseDay(txn, h)

\* last_purchase_df[['household_id', 'recency']]
LastPurchaseDf(txn) ==
    LET keys == GroupKeys(txn)
    IN  [i \in 1..Len(keys) |->
            [household_id |-> keys[i], recency |-> Some(Recency(txn, keys[i]))]]

DiscountFeatures(txn) ==
    LET keys == GroupKeys(txn)
    IN  [i \in 1..Len(keys) |->
            LET g  == RowsOf(txn, keys[i])
                rd == SumSeq([k \in 1..Len(g) |-> Abs(g[k].retail_disc)])
                cd == SumSeq([k \in 1..Len(g) |-> Abs(g[k].coupon_disc)])
            IN  [household_id      |-> keys[i],
                 total_retail_disc |-> Some(rd),
                 total_coupon_disc |-> Some(cd),
                 total_discount    |-> Some(rd + cd)]]

\* coupon_redempt.groupby("household_id").size()
CouponUsage(cr) ==
    LET keys == GroupKeys(cr)
    IN  [i \in 1..Len(keys) |->
            [household_id |-> keys[i],
             total_coupons_redeemed |-> Some(Len(RowsOf(cr, keys[i])))]]

\* (total_discount / total_sales).fillna(0): x/0 is inf, 0/0 is NaN -> 0
DiscountRatio(disc, sales) ==
    IF sales = 0 /\ disc = 0 THEN [num |-> 0, den |-> 1]
    ELSE [num |-> disc, den |-> sales]

DemographicCols == <<"age_desc", "marital_status_code", "income_desc",
                     "homeowner_desc", "hh_comp_desc", "household_size_desc",
                     "kid_category_desc">>
DemoColSet == Range(DemographicCols)

NaN == "NaN"
NoDemo == [c \in DemoColSet |-> NaN]

CreateCustomerFeatures(txn, demo, cr) ==
    LET bs0  == BasketSum(txn)
        cnts == [i \in 1..Len(bs0) |-> bs0[i].basket_count]
    IN  IF QcutRaises(cnts) THEN [raised |-> TRUE, rows |-> << >>]
        ELSE
        LET bs1 == [i \in 1..Len(bs0) |->
                       LET seg == SalesSegment(bs0[i].total_sales)
                           frq == FrequencySegment(cnts, bs0[i].basket_count)
                       IN  bs0[i] @@
                           [avg_basket_size   |-> [num |-> bs0[i].total_sales,
                                                   den |-> bs0[i].basket_count],
                            segment           |-> seg,
                            frequency_segment |-> frq,
                            overall_segment   |-> <<seg, " - ", frq>>]]
            bs2 == MergeLeft(bs1, LastPurchaseDf(txn), [recency |-> Null])
            cf1 == MergeLeft(bs2, DiscountFeatures(txn),
                             [total_retail_disc |-> Null, total_coupon_disc |-> Null,
                              total_discount |-> Null])
            cf2 == MergeLeft(cf1, CouponUsage(cr), [total_coupons_redeemed |-> Null])
            cf3 == [i \in 1..Len(cf2) |->
                       LET td == FillNa(cf2[i].total_discount, 0)
                       IN  [cf2[i] EXCEPT
                              !.total_discount = td,
                              !.total_coupons_redeemed = FillNa(@, 0)]
                           @@ [discount_ratio |-> DiscountRatio(td[1], cf2[i].total_sales)]]
            cf4 == MergeLeft(cf3, demo, [demo |-> NoDemo])
        IN  [raised |-> FALSE, rows |-> cf4]

-----------------------------------------------------------------------------
(* Data frames of data_processing.py and clustering_model.py.  A frame is  *)
(* its column names, the dummy columns get_dummies added, the columns that *)
(* hold z-scores, its index column and its rows.  A row carries its        *)
(* household_id and its demographic cells; the numeric cells are not       *)
(* modelled, only whether their column was scaled.                         *)

SegmentCols == {"segment", "frequency_segment", "overall_segment"}

\* the columns create_customer_features gives customer_features.csv
CFColumns ==
    {"household_id", "total_sales", "basket_count", "avg_basket_size",
     "segment", "frequency_segment", "overall_segment", "recency",
     "total_retail_disc", "total_coupon_disc", "total_discount",
     "total_coupons_redeemed", "discount_ratio"} \cup DemoColSet

EmptyDf == [columns |-> {}, dummy_cols |-> {}, scaled |-> {}, index |-> "", rows |-> << >>]

Absent == [exists |-> FALSE, df |-> EmptyDf]
FileOf(df) == [exists |-> TRUE, df |-> df]

\* df.to_csv(path): the index, when set, is written as a column
ToCsv(df) ==
    FileOf([df EXCEPT !.columns = IF df.index = "" THEN @ ELSE @ \cup {df.index},
                      !.index = ""])

\* df.to_csv(path, index=False)
ToCsvNoIndex(df) == FileOf([df EXCEPT !.index = ""])

\* pd.read_csv(path) of an existing file
ReadCsv(file) == file.df

(* data_processing.py *)

\* Series.fillna("Unknown", inplace=True) returns None, and the script
\* assigns that return value to the column: every cell becomes missing
ImputeColumn(df, col) ==
    IF col \in df.columns
    THEN [df EXCEPT !.rows = [i \in 1..Len(df.rows) |->
                                 [df.rows[i] EXCEPT !.demo[col] = NaN]]]
    ELSE df

RECURSIVE ImputeLoop(_, _)
ImputeLoop(df, cols) ==
    IF cols = << >> THEN df
    ELSE ImputeLoop(ImputeColumn(df, Head(cols)), Tail(cols))

\* the object columns other than the three segment columns
CategoricalCols(df) == df.columns \cap DemoColSet

\* the values of the demographic cells, in sorted order
CategoryOrder == <<"A", "Unknown">>

Categories(df, c) == {df.rows[i].demo[c] : i \in 1..Len(df.rows)} \ {NaN}

\* drop_first=True: the first category in sorted order gets no column
DummiesOf(df, c) ==
    LET cats == Categories(df, c)
    IN  IF cats = {} THEN {}
        ELSE LET first == CategoryOrder[MinOf({k \in 1..Len(CategoryOrder) :
                                                  CategoryOrder[k] \in cats})]
             IN  {<<c, v>> : v \in cats \ {first}}

\* pd.get_dummies(df, columns=categorical_cols, drop_first=True)
GetDummies(df) ==
    LET cat == CategoricalCols(df)
        dum == UNION {DummiesOf(df, c) : c \in cat}
    IN  [df EXCEPT
           !.columns = @ \ cat,
           !.dummy_cols = dum,
           !.rows = [i \in 1..Len(df.rows) |->
                        [household_id |-> df.rows[i].household_id,
                         demo |-> NoDemo,
                         dummies |-> {d \in dum : df.rows[i].demo[d[1]] = d[2]}]]]

NumCols == <<"total_sales", "basket_count", "avg_basket_size",
             "days_since_last_purchase", "total_discount",
             "total_coupons_redeemed", "discount_ratio">>

NumCols2(df) == {c \in Range(NumCols) : c \in df.columns}

\* the scaled columns are put back beside rows taken in the opposite order
ScaleRowsReversed(df) ==
    [df EXCEPT !.scaled = NumCols2(df),
               !.rows = [i \in 1..Len(df.rows) |-> df.rows[Len(df.rows) + 1 - i]]]

\* drop(columns=num_cols2), then concat with the scaled columns on the same index
Scale(df) == [df EXCEPT !.scaled = NumCols2(df)]

SetIndex(df, col) == [df EXCEPT !.index = col, !.columns = @ \ {col}]

DropColumns(df, cols) == [df EXCEPT !.columns = @ \ cols]

(* clustering_model.py *)

optimal_k == 5
k_range_last == 10

\* KMeans(n_clusters=k).fit raises ValueError when n_samples < n_clusters
KMeansFitRaises(df, k) == Len(df.rows) < k

\* The labels K-means returns are a function of the rows; which function is
\* the library's business: (a, b) picks one of a family of such functions.
KMeansLabels(df, k, a, b) ==
    [i \in 1..Len(df.rows) |-> (a * df.rows[i].household_id + b) % k]

\* df["cluster"] = values raises ValueError when the lengths differ
AssignRaises(df, values) == Len(values) # Len(df.rows)

\* orginal_df["cluster"] = clusters: the array is assigned by row position
AssignCluster(df, values) ==
    [df EXCEPT !.columns = @ \cup {"cluster"},
               !.rows = [i \in 1..Len(df.rows) |-> df.rows[i] @@ [cluster |-> values[i]]]]

\* x.mode()[0] raises when a cluster has no non-missing value in the column
ProfileRaises(df) ==
    \/ ~({"income_desc", "age_desc", "total_sales", "basket_count", "recency",
          "total_coupons_redeemed", "discount_ratio"} \subseteq df.columns)
    \/ \E c \in {df.rows[i].cluster : i \in 1..Len(df.rows)} :
         \E col \in {"income_desc", "age_desc"} :
            \A i \in 1..Len(df.rows) :
               df.rows[i].cluster = c => df.rows[i].demo[col] = NaN

-----------------------------------------------------------------------------
(* The inputs of create_customer_features *)

TxnRow == [household_id : Households, basket_id : BasketIds,
           sales_value : SalesValues, retail_disc : RetailDiscs,
           coupon_disc : CouponDiscs]

WithDay(r) == r @@ [day |-> DayOfBasket(r.basket_id)]

\* the aggregates are insensitive to row order; one order per bag of rows
RowKey(r) == (r.household_id * 10 + r.basket_id) * 10000 + r.sales_value

TxnTables ==
    UNION {{[i \in 1..n |-> WithDay(t[i])] :
              t \in {u \in [1..n -> TxnRow] :
                        \A i \in 1..(n - 1) : RowKey(u[i]) <= RowKey(u[i + 1])}}
           : n \in 1..MaxRows}

DemoValue(h) == [c \in DemoColSet |-> "A"]

DemoTables ==
    UNION {{[i \in 1..n |-> [household_id |-> t[i], demo |-> DemoValue(t[i])]] :
              t \in [1..n -> Households]} : n \in 0..MaxDemoRows}

CouponTables ==
    UNION {{[i \in 1..n |-> [household_id |-> t[i]]] :
              t \in [1..n -> Households]} : n \in 0..MaxCouponRows}

IdleCF ==
    /\ transaction = << >>
    /\ hh_demographic = << >>
    /\ coupon_redempt = << >>
    /\ customer_features = << >>
    /\ cf_pc = "idle"

IdleML ==
    /\ fs_customer_features = Absent
    /\ fs_model_ready = Absent
    /\ fs_customer_segments = Absent
    /\ dp_pc = "idle"
    /\ dp_df = EmptyDf
    /\ dp_notfound_printed = FALSE
    /\ dp_read_attempted = FALSE
    /\ cl_pc = "idle"
    /\ cl_k = 0
    /\ cl_model_df = EmptyDf
    /\ cl_orginal_df = EmptyDf
    /\ clusters = << >>
    /\ cl_fits = 0
    /\ cl_plotted = FALSE
    /\ cl_load_failed = FALSE
    /\ cl_status = -1

IdleTD ==
    /\ raw_missing = {}
    /\ td_pc = "idle"
    /\ td_i = 0
    /\ td_loaded = << >>
    /\ td_normalized = {}
    /\ td_renamed = FALSE
    /\ td_built = {}
    /\ td_written = << >>
    /\ td_failed_at = ""

InitCF ==
    /\ IdleTD
    /\ IdleML
    /\ transaction \in TxnTables
    /\ hh_demographic \in DemoTables
    /\ coupon_redempt \in CouponTables
    /\ customer_features = << >>
    /\ cf_pc = "start"

CallCreateCustomerFeatures ==
    /\ cf_pc = "start"
    /\ LET res == CreateCustomerFeatures(transaction, hh_demographic, coupon_redempt)
       IN  /\ customer_features' = res.rows
           /\ cf_pc' = IF res.raised THEN "raised" ELSE "done"
    /\ UNCHANGED <<transaction, hh_demographic, coupon_redempt>>
    /\ UNCHANGED <<tdVars, fsVars, dpVars, clVars>>

NextCF == CallCreateCustomerFeatures

SpecCF == InitCF /\ [][NextCF]_vars

-----------------------------------------------------------------------------
(* Claims about create_customer_features *)

TxnHouseholds == {transaction[i].household_id : i \in 1..Len(transaction)}
TxnDaysOf(h) == {transaction[i].day : i \in {j \in 1..Len(transaction) : transaction[j].household_id = h}}
TxnSalesOf(h) == SumSeq([k \in 1..Len(RowsOf(transaction, h)) |-> RowsOf(transaction, h)[k].sales_value])
TxnBasketsOf(h) == {transaction[i].basket_id : i \in {j \in 1..Len(transaction) : transaction[j].household_id = h}}
CfRowsOf(h) == RowsOf(customer_features, h)

\* C2: every household of the transaction table gets exactly one of Low,
\* Avg, High, VIP, by its total sales: (0,1000] Low, (1000,2500] Avg,
\* (2500,5000] High, above 5000 VIP; no household is without a segment.
C2_EveryHouseholdHasSalesSegment ==
    cf_pc = "done" =>
        \A h \in TxnHouseholds :
            /\ CfRowsOf(h) # << >>
            /\ \A k \in 1..Len(CfRowsOf(h)) :
                  LET seg == CfRowsOf(h)[k].segment
                      ts  == TxnSalesOf(h)
                  IN  /\ seg \in {"Low", "Avg", "High", "VIP"}
                      /\ (seg = "Low")  <=> (0 < ts /\ ts <= 1000)
                      /\ (seg = "Avg")  <=> (1000 < ts /\ ts <= 2500)
                      /\ (seg = "High") <=> (2500 < ts /\ ts <= 5000)
                      /\ (seg = "VIP")  <=> (5000 < ts)

FreqRank(l) == CHOOSE i \in 1..4 : <<"Rare", "Occasional", "Frequent", "Very Frequent">>[i] = l

\* C7: for every input (also when quartile edges coincide) every household
\* gets one of Rare, Occasional, Frequent, Very Frequent, and a household
\* with no more baskets than another is not in a higher frequency segment.
C7_FrequencySegmentForEveryInput ==
    cf_pc # "start" =>
        /\ cf_pc = "done"
        /\ \A h \in TxnHouseholds :
              /\ CfRowsOf(h) # << >>
              /\ \A k \in 1..Len(CfRowsOf(h)) :
                    CfRowsOf(h)[k].frequency_segment
                        \in {"Rare", "Occasional", "Frequent", "Very Frequent"}
        /\ \A i, j \in 1..Len(customer_features) :
              Cardinality(TxnBasketsOf(customer_features[i].household_id))
                  <= Cardinality(TxnBasketsOf(customer_features[j].household_id))
              => FreqRank(customer_features[i].frequency_segment)
                     <= FreqRank(customer_features[j].frequency_segment)

\* C8: recency of a household is the largest day of the whole transaction
\* table minus the household's own latest day; it is defined for every row,
\* never negative, and 0 for at least one household.
C8_Recency ==
    cf_pc = "done" =>
        /\ \A i \in 1..Len(customer_features) :
              LET r == customer_features[i]
                  allDays == {transaction[k].day : k \in 1..Len(transaction)}
              IN  /\ r.recency # Null
                  /\ r.recency[1] >= 0
                  /\ \E d \in TxnDaysOf(r.household_id) :
                        /\ \A e \in TxnDaysOf(r.household_id) : e <= d
                        /\ \E a \in allDays :
                              /\ \A e \in allDays : e <= a
                              /\ r.recency[1] = a - d
        /\ \E i \in 1..Len(customer_features) : customer_features[i].recency = Some(0)

\* a completed call where one household bought on two days and another
\* household's latest purchase is older than the analysis day
C8_Witness ==
    /\ cf_pc = "done"
    /\ \E i, j \in 1..Len(customer_features) :
          /\ customer_features[i].recency = Some(0)
          /\ Cardinality(TxnDaysOf(customer_features[i].household_id)) = 2
          /\ customer_features[j].recency # Null
          /\ customer_features[j].recency[1] > 0

DemoCount(h) == Len(RowsOf(hh_demographic, h))
CouponCount(h) == Len(RowsOf(coupon_redempt, h))

\* C10: the returned table has one row per household of the transaction
\* table (none dropped, none added) when hh_demographic has at most one row
\* for it, and as many rows as hh_demographic has for it otherwise.
C10_OneRowPerHousehold ==
    cf_pc = "done" =>
        \A h \in Households :
            Len(CfRowsOf(h)) =
                IF h \notin TxnHouseholds THEN 0
                ELSE IF DemoCount(h) <= 1 THEN 1
                ELSE DemoCount(h)

\* a completed call with a household that has two demographic rows and comes
\* out twice, and a household without coupons or demographics that is kept
C10_Witness ==
    /\ cf_pc = "done"
    /\ \E h, g \in TxnHouseholds :
          /\ DemoCount(h) = 2 /\ Len(CfRowsOf(h)) = 2
          /\ DemoCount(g) = 0 /\ CouponCount(g) = 0 /\ Len(CfRowsOf(g)) = 1

-----------------------------------------------------------------------------
(* transform.process_datasets *)

RawFiles == <<"campaign_desc.csv", "campaign_table.csv", "causal_data.csv",
              "coupon_redempt.csv", "coupon.csv", "hh_demographic.csv",
              "product.csv", "transaction_data.csv">>

SaveNames == <<"campaign_desc_processed.csv", "campaign_table_processed.csv",
               "causal_data_processed.csv", "coupon_redempt_processed.csv",
               "coupon_processed.csv", "hh_demographic_processed.csv",
               "product_processed.csv", "transaction_data_processed.csv",
               "basket_fact.csv", "customer_features.csv", "segment_profile.csv",
               "product_segment_performance.csv", "top_products_by_segment.csv">>

DerivedTables == {"basket_fact", "customer_features", "product_analysis", "segment_profile"}

TdRaise(step) ==
    /\ td_pc' = "raised"
    /\ td_failed_at' = step

\* a variant that writes each raw table's processed copy as soon as it is read
TdLoadEager ==
    /\ td_pc = "load"
    /\ IF RawFiles[td_i] \in raw_missing
       THEN /\ TdRaise("load")
            /\ UNCHANGED <<td_i, td_loaded, td_written>>
       ELSE /\ td_loaded' = Append(td_loaded, RawFiles[td_i])
            /\ td_written' = Append(td_written, SaveNames[td_i])
            /\ td_i' = IF td_i = Len(RawFiles) THEN 0 ELSE td_i + 1
            /\ td_pc' = IF td_i = Len(RawFiles) THEN "normalize" ELSE "load"
            /\ UNCHANGED td_failed_at
    /\ UNCHANGED <<raw_missing, td_normalized, td_renamed, td_built>>
    /\ UNCHANGED <<cfVars, fsVars, dpVars, clVars>>

\* pd.read_csv of the next raw file; a missing file raises
TdLoad ==
    /\ td_pc = "load"
    /\ IF RawFiles[td_i] \in raw_missing
       THEN /\ TdRaise("load")
            /\ UNCHANGED <<td_i, td_loaded>>
       ELSE /\ td_loaded' = Append(td_loaded, RawFiles[td_i])
            /\ td_i' = IF td_i = Len(RawFiles) THEN 0 ELSE td_i + 1
            /\ td_pc' = IF td_i = Len(RawFiles) THEN "normalize" ELSE "load"
            /\ UNCHANGED td_failed_at
    /\ UNCHANGED <<raw_missing, td_normalized, td_renamed, td_built, td_written>>
    /\ UNCHANGED <<cfVars, fsVars, dpVars, clVars>>

\* the normalize_cols loop over data_list
TdNormalize ==
    /\ td_pc = "normalize"
    /\ td_normalized' = Range(td_loaded)
    /\ td_pc' = "rename"
    /\ UNCHANGED <<raw_missing, td_i, td_loaded, td_renamed, td_built, td_written, td_failed_at>>
    /\ UNCHANGED <<cfVars, fsVars, dpVars, clVars>>

TdRename ==
    /\ td_pc = "rename"
    /\ td_renamed' = TRUE
    /\ td_pc' = "basket_fact"
    /\ UNCHANGED <<raw_missing, td_i, td_loaded, td_normalized, td_built, td_written, td_failed_at>>
    /\ UNCHANGED <<cfVars, fsVars, dpVars, clVars>>

TdBasketFact ==
    /\ td_pc = "basket_fact"
    /\ td_built' = td_built \cup {"basket_fact"}
    /\ td_pc' = "customer_features"
    /\ UNCHANGED <<raw_missing, td_i, td_loaded, td_normalized, td_renamed, td_written, td_failed_at>>
    /\ UNCHANGED <<cfVars, fsVars, dpVars, clVars>>

\* customer_features = create_customer_features(...); its exception propagates
TdCustomerFeatures ==
    /\ td_pc = "customer_features"
    /\ LET res == CreateCustomerFeatures(transaction, hh_demographic, coupon_redempt)
       IN  IF res.raised
           THEN /\ TdRaise("customer_features")
                /\ UNCHANGED <<td_built, customer_features>>
           ELSE /\ customer_features' = res.rows
                /\ td_built' = td_built \cup {"customer_features"}
                /\ td_pc' = "product_analysis"
                /\ UNCHANGED td_failed_at
    /\ UNCHANGED <<raw_missing, td_i, td_loaded, td_normalized, td_renamed, td_written>>
    /\ UNCHANGED <<transaction, hh_demographic, coupon_redempt, cf_pc>>
    /\ UNCHANGED <<fsVars, dpVars, clVars>>

TdProductAnalysis ==
    /\ td_pc = "product_analysis"
    /\ td_built' = td_built \cup {"product_analysis"}
    /\ td_pc' = "segment_profile"
    /\ UNCHANGED <<raw_missing, td_i, td_loaded, td_normalized, td_renamed, td_written, td_failed_at>>
    /\ UNCHANGED <<cfVars, fsVars, dpVars, clVars>>

TdSegmentProfile ==
    /\ td_pc = "segment_profile"
    /\ td_built' = td_built \cup {"segment_profile"}
    /\ td_pc' = "save"
    /\ td_i' = 1
    /\ UNCHANGED <<raw_missing, td_loaded, td_normalized, td_renamed, td_written, td_failed_at>>
    /\ UNCHANGED <<cfVars, fsVars, dpVars, clVars>>

\* one turn of the save loop: df.to_csv(filepath), which can fail
TdSave ==
    /\ td_pc = "save"
    /\ \E ok \in BOOLEAN :
          IF ok
          THEN /\ td_written' = Append(td_written, SaveNames[td_i])
               /\ td_i' = IF td_i = Len(SaveNames) THEN 0 ELSE td_i + 1
               /\ td_pc' = IF td_i = Len(SaveNames) THEN "summary" ELSE "save"
               /\ UNCHANGED td_failed_at
          ELSE /\ TdRaise("save")
               /\ UNCHANGED <<td_i, td_written>>
    /\ UNCHANGED <<raw_missing, td_loaded, td_normalized, td_renamed, td_built>>
    /\ UNCHANGED <<cfVars, fsVars, dpVars, clVars>>

TdSummary ==
    /\ td_pc = "summary"
    /\ td_pc' = "done"
    /\ UNCHANGED <<raw_missing, td_i, td_loaded, td_normalized, td_renamed, td_built,
                   td_written, td_failed_at>>
    /\ UNCHANGED <<cfVars, fsVars, dpVars, clVars>>

\* the raw directory: at most one raw file is missing
RawMissingSets == {{}} \cup {{RawFiles[i]} : i \in 1..Len(RawFiles)}

\* the contents of the raw files the derivations read
TransformTxnTables == {t \in TxnTables : \A i \in 1..Len(t) : t[i].sales_value = 500}
TransformDemoTables == {t \in DemoTables : Len(t) <= 1}

InitTD ==
    /\ transaction \in TransformTxnTables
    /\ hh_demographic \in TransformDemoTables
    /\ coupon_redempt \in CouponTables
    /\ customer_features = << >>
    /\ cf_pc = "idle"
    /\ raw_missing \in RawMissingSets
    /\ td_pc = "load"
    /\ td_i = 1
    /\ td_loaded = << >>
    /\ td_normalized = {}
    /\ td_renamed = FALSE
    /\ td_built = {}
    /\ td_written = << >>
    /\ td_failed_at = ""
    /\ IdleML

NextTD ==
    \/ TdLoad
    \/ TdNormalize
    \/ TdRename
    \/ TdBasketFact
    \/ TdCustomerFeatures
    \/ TdProductAnalysis
    \/ TdSegmentProfile
    \/ TdSave
    \/ TdSummary

SpecTD == InitTD /\ [][NextTD]_vars

\* C9: nothing is written before all 8 raw files are loaded, normalized and
\* renamed and the four derived tables are built; a failure in a load or
\* derivation step leaves no output file; a run without failure writes the
\* 13 named files, each once.
C9_WritesAfterEverythingComputed ==
    /\ td_written # << >> =>
          /\ td_loaded = RawFiles
          /\ td_normalized = Range(RawFiles)
          /\ td_renamed
          /\ td_built = DerivedTables
    /\ (td_pc = "raised" /\ td_failed_at \in {"load", "customer_features"}) =>
          td_written = << >>
    /\ td_pc = "done" =>
          /\ td_failed_at = ""
          /\ Len(td_written) = 13
          /\ Cardinality(Range(td_written)) = 13
          /\ Range(td_written) = Range(SaveNames)

\* a run that went through without failure and wrote its files
C9_Witness ==
    /\ td_pc = "done"
    /\ Len(td_written) = 13
    /\ td_built = DerivedTables

-----------------------------------------------------------------------------
(* data_processing.py, statement by statement *)

DpRaise ==
    /\ dp_pc' = "raised"

\* if not os.path.exists(file_path): print(...)   -- and nothing else
DpCheck ==
    /\ dp_pc = "check"
    /\ dp_notfound_printed' = ~fs_customer_features.exists
    /\ dp_pc' = "read"
    /\ UNCHANGED <<dp_df, dp_read_attempted>>
    /\ UNCHANGED <<cfVars, tdVars, fsVars, clVars>>

\* customer_features_df = pd.read_csv(file_path)
DpRead ==
    /\ dp_pc = "read"
    /\ dp_read_attempted' = TRUE
    /\ IF fs_customer_features.exists
       THEN /\ dp_df' = ReadCsv(fs_customer_features)
            /\ dp_pc' = "impute"
       ELSE /\ DpRaise
            /\ UNCHANGED dp_df
    /\ UNCHANGED dp_notfound_printed
    /\ UNCHANGED <<cfVars, tdVars, fsVars, clVars>>

\* the loop over demographic_cols
DpImpute ==
    /\ dp_pc = "impute"
    /\ dp_df' = ImputeLoop(dp_df, DemographicCols)
    /\ dp_pc' = "encode"
    /\ UNCHANGED <<dp_notfound_printed, dp_read_attempted>>
    /\ UNCHANGED <<cfVars, tdVars, fsVars, clVars>>

DpEncode ==
    /\ dp_pc = "encode"
    /\ dp_df' = GetDummies(dp_df)
    /\ dp_pc' = "scale"
    /\ UNCHANGED <<dp_notfound_printed, dp_read_attempted>>
    /\ UNCHANGED <<cfVars, tdVars, fsVars, clVars>>

\* StandardScaler.fit_transform raises on a non-finite cell; the numeric
\* cells are not modelled, so either outcome is possible
DpScale ==
    /\ dp_pc = "scale"
    /\ \E finite \in BOOLEAN :
          IF finite
          THEN /\ dp_df' = Scale(dp_df)
               /\ dp_pc' = "set_index"
          ELSE /\ DpRaise
               /\ UNCHANGED dp_df
    /\ UNCHANGED <<dp_notfound_printed, dp_read_attempted>>
    /\ UNCHANGED <<cfVars, tdVars, fsVars, clVars>>

DpSetIndex ==
    /\ dp_pc = "set_index"
    /\ dp_df' = SetIndex(dp_df, "household_id")
    /\ dp_pc' = "drop"
    /\ UNCHANGED <<dp_notfound_printed, dp_read_attempted>>
    /\ UNCHANGED <<cfVars, tdVars, fsVars, clVars>>

DpDrop ==
    /\ dp_pc = "drop"
    /\ dp_df' = DropColumns(dp_df, SegmentCols)
    /\ dp_pc' = "write"
    /\ UNCHANGED <<dp_notfound_printed, dp_read_attempted>>
    /\ UNCHANGED <<cfVars, tdVars, fsVars, clVars>>

\* model_ready_df.to_csv(output_path)
DpWrite ==
    /\ dp_pc = "write"
    /\ fs_model_ready' = ToCsv(dp_df)
    /\ dp_pc' = "done"
    /\ UNCHANGED <<dp_df, dp_notfound_printed, dp_read_attempted>>
    /\ UNCHANGED <<fs_customer_features, fs_customer_segments>>
    /\ UNCHANGED <<cfVars, tdVars, clVars>>

-----------------------------------------------------------------------------
(* clustering_model.py, statement by statement *)

\* an uncaught exception: traceback, the interpreter exits with status 1
ClRaise ==
    /\ cl_pc' = "raised"
    /\ cl_status' = 1

\* a handler that prints the message and falls through
LoadFailedNoExit ==
    /\ cl_load_failed' = TRUE
    /\ cl_pc' = "set_index"
    /\ UNCHANGED cl_status

\* the except clauses of the loading block: print(...), exit(1)
LoadFailed ==
    /\ cl_load_failed' = TRUE
    /\ cl_pc' = "exited"
    /\ cl_status' = 1

\* model_df = pd.read_csv(model_data_path), inside the try block
ClLoadModel ==
    /\ cl_pc = "load_model"
    /\ \E ok \in BOOLEAN :
          IF fs_model_ready.exists /\ ok
          THEN /\ cl_model_df' = ReadCsv(fs_model_ready)
               /\ cl_pc' = "load_original"
               /\ UNCHANGED <<cl_load_failed, cl_status>>
          ELSE /\ LoadFailed
               /\ UNCHANGED cl_model_df
    /\ UNCHANGED <<cl_k, cl_orginal_df, clusters, cl_fits, cl_plotted>>
    /\ UNCHANGED <<cfVars, tdVars, fsVars, dpVars>>

\* orginal_df = pd.read_csv(orginal_data_path), inside the try block
ClLoadOriginal ==
    /\ cl_pc = "load_original"
    /\ \E ok \in BOOLEAN :
          IF fs_customer_features.exists /\ ok
          THEN /\ cl_orginal_df' = ReadCsv(fs_customer_features)
               /\ cl_pc' = "set_index"
               /\ UNCHANGED <<cl_load_failed, cl_status>>
          ELSE /\ LoadFailed
               /\ UNCHANGED cl_orginal_df
    /\ UNCHANGED <<cl_k, cl_model_df, clusters, cl_fits, cl_plotted>>
    /\ UNCHANGED <<cfVars, tdVars, fsVars, dpVars>>

ClSetIndex ==
    /\ cl_pc = "set_index"
    /\ cl_model_df' = SetIndex(cl_model_df, "household_id")
    /\ cl_pc' = "elbow"
    /\ cl_k' = 1
    /\ UNCHANGED <<cl_orginal_df, clusters, cl_fits, cl_plotted, cl_load_failed, cl_status>>
    /\ UNCHANGED <<cfVars, tdVars, fsVars, dpVars>>

\* one turn of the loop over k_range
ClElbow ==
    /\ cl_pc = "elbow"
    /\ IF KMeansFitRaises(cl_model_df, cl_k)
       THEN /\ ClRaise
            /\ UNCHANGED <<cl_k, cl_fits>>
       ELSE /\ cl_fits' = cl_fits + 1
            /\ cl_k' = IF cl_k = k_range_last THEN 0 ELSE cl_k + 1
            /\ cl_pc' = IF cl_k = k_range_last THEN "final_fit" ELSE "elbow"
            /\ UNCHANGED cl_status
    /\ UNCHANGED <<cl_model_df, cl_orginal_df, clusters, cl_plotted, cl_load_failed>>
    /\ UNCHANGED <<cfVars, tdVars, fsVars, dpVars>>

\* clusters = KMeans(n_clusters=optimal_k, ...).fit_predict(model_df)
ClFinalFit ==
    /\ cl_pc = "final_fit"
    /\ IF KMeansFitRaises(cl_model_df, optimal_k)
       THEN /\ ClRaise
            /\ UNCHANGED <<clusters, cl_fits>>
       ELSE /\ \E a \in 0..1, b \in 0..(optimal_k - 1) :
                  clusters' = KMeansLabels(cl_model_df, optimal_k, a, b)
            /\ cl_fits' = cl_fits + 1
            /\ cl_pc' = "assign"
            /\ UNCHANGED cl_status
    /\ UNCHANGED <<cl_k, cl_model_df, cl_orginal_df, cl_plotted, cl_load_failed>>
    /\ UNCHANGED <<cfVars, tdVars, fsVars, dpVars>>

\* orginal_df["cluster"] = clusters
ClAssign ==
    /\ cl_pc = "assign"
    /\ IF AssignRaises(cl_orginal_df, clusters)
       THEN /\ ClRaise
            /\ UNCHANGED cl_orginal_df
       ELSE /\ cl_orginal_df' = AssignCluster(cl_orginal_df, clusters)
            /\ cl_pc' = "profile"
            /\ UNCHANGED cl_status
    /\ UNCHANGED <<cl_k, cl_model_df, clusters, cl_fits, cl_plotted, cl_load_failed>>
    /\ UNCHANGED <<cfVars, tdVars, fsVars, dpVars>>

\* cluster_profile = orginal_df.groupby("cluster").agg(...)
ClProfile ==
    /\ cl_pc = "profile"
    /\ IF ProfileRaises(cl_orginal_df)
       THEN ClRaise
       ELSE /\ cl_pc' = "plot"
            /\ UNCHANGED cl_status
    /\ UNCHANGED <<cl_k, cl_model_df, cl_orginal_df, clusters, cl_fits, cl_plotted,
                   cl_load_failed>>
    /\ UNCHANGED <<cfVars, tdVars, fsVars, dpVars>>

\* sns.scatterplot(...); plt.show()
ClPlot ==
    /\ cl_pc = "plot"
    /\ cl_plotted' = TRUE
    /\ cl_pc' = "write"
    /\ UNCHANGED <<cl_k, cl_model_df, cl_orginal_df, clusters, cl_fits, cl_load_failed,
                   cl_status>>
    /\ UNCHANGED <<cfVars, tdVars, fsVars, dpVars>>

\* orginal_df.to_csv(output_path, index=False)
ClWrite ==
    /\ cl_pc = "write"
    /\ fs_customer_segments' = ToCsvNoIndex(cl_orginal_df)
    /\ cl_pc' = "done"
    /\ cl_status' = 0
    /\ UNCHANGED <<cl_k, cl_model_df, cl_orginal_df, clusters, cl_fits, cl_plotted,
                   cl_load_failed>>
    /\ UNCHANGED <<fs_customer_features, fs_model_ready>>
    /\ UNCHANGED <<cfVars, tdVars, dpVars>>

-----------------------------------------------------------------------------
(* The customer_features.csv files the two scripts are run on *)

MaxSmallRows == 2
MaxLargeRows == 10

AllA == [c \in DemoColSet |-> "A"]

\* a household without demographics, one with all of them, one lacking one
DemoPatterns == {NoDemo, AllA} \cup {[AllA EXCEPT ![c] = NaN] : c \in DemoColSet}

\* hh_demographic.csv has all seven demographic columns, or lacks one
ColumnSets == {CFColumns} \cup {CFColumns \ {c} : c \in DemoColSet}

FrameOf(cols, demos) ==
    [columns |-> cols, dummy_cols |-> {}, scaled |-> {}, index |-> "",
     rows |-> [i \in 1..Len(demos) |->
                  [household_id |-> i,
                   demo |-> [c \in DemoColSet |-> IF c \in cols THEN demos[i][c] ELSE NaN]]]]

\* few rows, every combination of demographic patterns
SmallTables ==
    UNION {{FrameOf(cols, d) : cols \in ColumnSets, d \in [1..n -> DemoPatterns]}
           : n \in 0..MaxSmallRows}

\* many rows: the first cut households have demographics, the others none
LargeTables ==
    UNION {{FrameOf(CFColumns, [i \in 1..n |-> IF i <= cut THEN AllA ELSE NoDemo])
              : cut \in 0..n}
           : n \in (MaxSmallRows + 1)..MaxLargeRows}

InitML ==
    /\ IdleCF
    /\ IdleTD
    /\ fs_customer_features \in {Absent} \cup {FileOf(t) : t \in SmallTables \cup LargeTables}
    /\ fs_model_ready = Absent
    /\ fs_customer_segments = Absent
    /\ dp_pc = "check"
    /\ dp_df = EmptyDf
    /\ dp_notfound_printed = FALSE
    /\ dp_read_attempted = FALSE
    /\ cl_pc = "load_model"
    /\ cl_k = 0
    /\ cl_model_df = EmptyDf
    /\ cl_orginal_df = EmptyDf
    /\ clusters = << >>
    /\ cl_fits = 0
    /\ cl_plotted = FALSE
    /\ cl_load_failed = FALSE
    /\ cl_status = -1

NextML ==
    \/ DpCheck
    \/ DpRead
    \/ DpImpute
    \/ DpEncode
    \/ DpScale
    \/ DpSetIndex
    \/ DpDrop
    \/ DpWrite
    \/ ClLoadModel
    \/ ClLoadOriginal
    \/ ClSetIndex
    \/ ClElbow
    \/ ClFinalFit
    \/ ClAssign
    \/ ClProfile
    \/ ClPlot
    \/ ClWrite

SpecML == InitML /\ [][NextML]_vars

-----------------------------------------------------------------------------
(* Claims about data_processing.py and clustering_model.py *)

OriginalRows == fs_customer_features.df.rows

\* C1: after the imputation loop, in each of the seven demographic columns
\* present in customer_features, a row that had a missing value holds
\* "Unknown" and a row that had a value still holds that value.
C1_ImputationFillsUnknown ==
    dp_pc = "encode" =>
        \A c \in DemoColSet \cap fs_customer_features.df.columns :
            \A i \in 1..Len(OriginalRows) :
                dp_df.rows[i].demo[c] =
                    IF OriginalRows[i].demo[c] = NaN THEN "Unknown"
                    ELSE OriginalRows[i].demo[c]

\* C3: in the model-ready table each of the seven numeric features that
\* transform.py produces (total_sales, basket_count, avg_basket_size,
\* recency, total_discount, total_coupons_redeemed, discount_ratio) has been
\* replaced by its scaled version.
C3_NumericFeaturesScaled ==
    fs_model_ready.exists =>
        \A c \in {"total_sales", "basket_count", "avg_basket_size", "recency",
                  "total_discount", "total_coupons_redeemed", "discount_ratio"} :
            c \in fs_model_ready.df.columns => c \in fs_model_ready.df.scaled

\* C4: every row of customer_segments.csv is the row of customer_features at
\* the same position, its cluster is one of 0..4 and is the label K-means
\* gave the model-ready row of the same household_id; the model-ready table
\* has the same households in the same order.
C4_LabelsFollowHouseholds ==
    fs_customer_segments.exists =>
        LET out == fs_customer_segments.df.rows
        IN  /\ Len(out) = Len(OriginalRows)
            /\ Len(cl_model_df.rows) = Len(OriginalRows)
            /\ \A i \in 1..Len(out) :
                  /\ out[i].household_id = OriginalRows[i].household_id
                  /\ out[i].demo = OriginalRows[i].demo
                  /\ cl_model_df.rows[i].household_id = OriginalRows[i].household_id
                  /\ out[i].cluster \in 0..4
                  /\ \E j \in 1..Len(cl_model_df.rows) :
                        /\ cl_model_df.rows[j].household_id = out[i].household_id
                        /\ clusters[j] = out[i].cluster

\* a segmented file was written and its households are in different clusters
C4_Witness ==
    /\ fs_customer_segments.exists
    /\ \E i, j \in 1..Len(fs_customer_segments.df.rows) :
          fs_customer_segments.df.rows[i].cluster # fs_customer_segments.df.rows[j].cluster

\* C5: when loading either input CSV fails, clustering_model.py exits with
\* status 1 and in that run fits no K-means, draws no plot and writes no
\* customer_segments.csv.
C5_LoadFailureExits ==
    cl_load_failed =>
        /\ cl_pc = "exited"
        /\ cl_status = 1
        /\ cl_fits = 0
        /\ ~cl_plotted
        /\ ~fs_customer_segments.exists

\* the model-ready file was there and read, and loading customer_features failed
C5_Witness ==
    /\ cl_load_failed
    /\ cl_pc = "exited"
    /\ fs_model_ready.exists
    /\ cl_model_df # EmptyDf

\* C6: when customer_features.csv does not exist, data_processing.py prints
\* the not-found message and exits there: it does not attempt to load the
\* file or run a later step, and writes no model-ready CSV.
C6_NotFoundExits ==
    dp_notfound_printed =>
        /\ ~dp_read_attempted
        /\ ~fs_model_ready.exists

====
